---------------------------- MODULE Spec2Model ----------------------------
(***************************************************************************)
(* rusty-git-prompt (src/src/main.rs): a single-threaded prompt helper.    *)
(* main locates the repository, get_repo_info prints "[", the branch       *)
(* display, the index and worktree deltas and "]".                         *)
(*                                                                         *)
(* Text written to standard output is a sequence of one-character strings; *)
(* numbers are rendered digit by digit as `{}` renders a usize.  Every     *)
(* call into git2 / std is a step whose outcome the environment chooses.   *)
(* An error message is the sequence of the pieces it was formatted from.   *)
(***************************************************************************)
EXTENDS Integers, Sequences, FiniteSets, TLC

\* ------------------------------------------------------------------ bounds
\* files in the status list of a run
MaxFiles == 2
\* files the status iterator yields when every flag combination is explored
MaxScan == 1
\* largest count fed to the formatting functions, and ahead/behind of a run
MaxCount == 11
MaxAhead == 1

\* ------------------------------------------------------------- Option/Result
None == [some |-> FALSE]
Some(v) == [some |-> TRUE, val |-> v]
Ok(v) == [ok |-> TRUE, val |-> v]
Err(e) == [ok |-> FALSE, err |-> e]
Unit == "()"

\* ------------------------------------------------------------------- text
Digits == <<"0", "1", "2", "3", "4", "5", "6", "7", "8", "9">>

\* `{}` of a usize: its decimal digits, most significant first, no padding
RECURSIVE to_string(_)
to_string(n) ==
    IF n < 10 THEN <<Digits[n + 1]>>
    ELSE to_string(n \div 10) \o <<Digits[(n % 10) + 1]>>

\* the status flags of one entry of repo.statuses()
WT_NEW == "WT_NEW"
WT_MODIFIED == "WT_MODIFIED"
WT_DELETED == "WT_DELETED"
WT_RENAMED == "WT_RENAMED"
INDEX_NEW == "INDEX_NEW"
INDEX_MODIFIED == "INDEX_MODIFIED"
INDEX_DELETED == "INDEX_DELETED"
INDEX_RENAMED == "INDEX_RENAMED"
Flags == {WT_NEW, WT_MODIFIED, WT_DELETED, WT_RENAMED,
          INDEX_NEW, INDEX_MODIFIED, INDEX_DELETED, INDEX_RENAMED}

Cyan == "Cyan"
Green == "Green"
Red == "Red"

\* --------------------------------------------------------------- FileState
FileState(wa, we, wr, ia, ie, ir) ==
    [wt_add |-> wa, wt_edit |-> we, wt_remove |-> wr,
     index_add |-> ia, index_edit |-> ie, index_remove |-> ir]

\* mutant: the edit and remove terms are pushed in the other order
FileState_as_string_swapped(add, edit, remove) ==
    LET r1 == IF add > 0 THEN <<" ", "+">> \o to_string(add) ELSE <<>>
        r2 == IF remove > 0 THEN r1 \o <<" ", "-">> \o to_string(remove) ELSE r1
        r3 == IF edit > 0 THEN r2 \o <<" ", "~">> \o to_string(edit) ELSE r2
    IN  r3

FileState_as_string(add, edit, remove) ==
    LET r0 == <<>>
        r1 == IF add > 0 THEN r0 \o <<" ", "+">> \o to_string(add) ELSE r0
        r2 == IF edit > 0 THEN r1 \o <<" ", "~">> \o to_string(edit) ELSE r1
        r3 == IF remove > 0 THEN r2 \o <<" ", "-">> \o to_string(remove) ELSE r2
    IN  r3

wt_as_string(self) ==
    FileState_as_string(self.wt_add, self.wt_edit, self.wt_remove)

index_as_string(self) ==
    FileState_as_string(self.index_add, self.index_edit, self.index_remove)

\* ------------------------------------------------------------- BranchState
BranchState(n, a, b, d, s) ==
    [name |-> n, ahead |-> a, behind |-> b, is_detached |-> d, sha |-> s]

\* mutant: the ahead arrow is pushed before the behind arrow
BranchState_as_string_ahead_first(self) ==
    LET r0 == self.name
        r1 == IF self.is_detached THEN r0 \o <<"(">> \o self.sha \o <<")">> ELSE r0
        r2 == IF self.ahead > 0
              THEN r1 \o <<" ", "↑">> \o to_string(self.ahead) ELSE r1
        r3 == IF self.behind > 0
              THEN r2 \o <<" ", "↓">> \o to_string(self.behind) ELSE r2
    IN  r3

BranchState_as_string(self) ==
    LET r0 == self.name
        r1 == IF self.is_detached THEN r0 \o <<"(">> \o self.sha \o <<")">> ELSE r0
        r2 == IF self.behind > 0
              THEN r1 \o <<" ", "↓">> \o to_string(self.behind) ELSE r1
        r3 == IF self.ahead > 0
              THEN r2 \o <<" ", "↑">> \o to_string(self.ahead) ELSE r2
    IN  r3

\* ------------------------------------------------------------------ errors
\* Error::from_str(s): an error whose message is s
from_str(s) == [message |-> s]

\* format!("{}. Error: {}", context, e) wrapped in a new error
add_context_to_error(e, context) ==
    Err(from_str(<<context, ". Error: ">> \o e.message))


\* ------------------------------------------------------------ program data
MAIN == <<"m", "a", "i", "n">>
TRUNK == <<"t", "r", "u", "n", "k">>
HEAD == <<"H", "E", "A", "D">>

\* the literal fallback of get_empty_repo_branch_info
MASTER == <<"m", "a", "s", "t", "e", "r">>

\* Oid::zero(), displayed as 40 hexadecimal digits
Oid_zero == [i \in 1..40 |-> "0"]

\* the identifier of the commit HEAD peels to
HeadOid == [i \in 1..40 |-> <<"a", "b", "c", "1", "2", "3", "d", "e">>[(i % 8) + 1]]

\* values the environment can hand back
ConfigNames == {MAIN, TRUNK}
Shorthands == {MAIN, HEAD}
LibMessages == {<<"object not found">>, <<"permission denied">>}
DiscoverErrors ==
    {[code |-> "NotFound", message |-> <<"could not find repository">>],
     [code |-> "GenericError", message |-> <<"permission denied">>]}
AheadBehinds == (0..MaxAhead) \X (0..MaxAhead)

\* status entries of one run, and every flag combination
SampleStatuses ==
    {{}, {WT_NEW}, {WT_MODIFIED}, {WT_DELETED}, {WT_RENAMED},
     {INDEX_NEW}, {INDEX_MODIFIED}, {INDEX_DELETED}, {INDEX_RENAMED},
     {INDEX_NEW, WT_MODIFIED}, {INDEX_RENAMED, INDEX_MODIFIED}}
AllStatuses == SUBSET Flags

LibErr == {Err([message |-> m]) : m \in LibMessages}

\* ------------------------------------------------------------------- state
VARIABLES
    pc,             \* the statement the run is at
    stdout,         \* the styled pieces written by print_bold_string, in order
    stderr,         \* what the runtime reports when main returns Err
    ret,            \* main's return value, once it has returned
    calls,          \* the library calls made so far, with their outcomes
    head_shortname, \* get_branch_info: head.shorthand()
    ahead_behind,   \* get_branch_info: repo.graph_ahead_behind(..)
    is_detached,    \* get_branch_info: repo.head_detached()
    branch_state,   \* get_repo_info: the BranchState, once resolved
    counters,       \* get_file_state: the six running counters
    scanned,        \* get_file_state: entries the iterator has yielded
    last,           \* get_file_state: the status of the entry just counted
    file_state,     \* get_repo_info: the FileState, once aggregated
    index_text,     \* get_repo_info: file_state.index_as_string()
    wt_text,        \* get_repo_info: file_state.wt_as_string()
    args,           \* the arguments of a formatting call
    text            \* what the formatting call returned

vars == <<pc, stdout, stderr, ret, calls, head_shortname, ahead_behind,
          is_detached, branch_state, counters, scanned, last, file_state,
          index_text, wt_text, args, text>>

branch_locals == <<head_shortname, ahead_behind, is_detached>>
scan_locals == <<counters, scanned, last>>
fmt_locals == <<file_state, index_text, wt_text>>
fmt_call == <<args, text>>

NoArgs == [kind |-> "none", add |-> 0, edit |-> 0, remove |-> 0,
           self |-> BranchState(MAIN, 0, 0, FALSE, Oid_zero)]

Init ==
    /\ pc = "main"
    /\ stdout = <<>>
    /\ stderr = <<>>
    /\ ret = None
    /\ calls = <<>>
    /\ head_shortname = None
    /\ ahead_behind = <<0, 0>>
    /\ is_detached = FALSE
    /\ branch_state = None
    /\ counters = FileState(0, 0, 0, 0, 0, 0)
    /\ scanned = 0
    /\ last = {}
    /\ file_state = None
    /\ index_text = <<>>
    /\ wt_text = <<>>
    /\ args = NoArgs
    /\ text = None

\* ------------------------------------------------------------ step helpers
\* print!("{}", text.color(colour).bold())
print_bold_string(t, colour) ==
    stdout' = Append(stdout, [text |-> t, colour |-> colour, bold |-> TRUE])

\* a library call and its outcome
Call(op, r) == calls' = Append(calls, [op |-> op, res |-> r])

\* main returns r: Ok(()) exits 0, Err(e) is reported on stderr and exits 1
Return(r) ==
    /\ pc' = "exit"
    /\ ret' = Some(r)
    /\ stderr' = IF r.ok THEN stderr
                 ELSE Append(stderr, [prefix |-> "Error: ", error |-> r.err])

Goto(l) == pc' = l /\ UNCHANGED <<ret, stderr>>

exit_code == IF ret.val.ok THEN 0 ELSE 1


\* -------------------------------------------------------------------- main
\* mutant: a discovery error is propagated like every other error
main_no_repository_propagated(e) == Err(from_str(e.message))

\* Err(_) => { } and the Ok(()) that ends main
main_no_repository(e) == Ok(Unit)

\* env::current_dir()
CurrentDir ==
    /\ pc = "main"
    /\ \E r \in {Ok("dir")} \cup LibErr :
        /\ Call("env::current_dir", r)
        /\ IF r.ok THEN Goto("Repository::discover")
           ELSE Return(add_context_to_error(from_str(r.err.message),
                                            "Unable to get current dir"))
    /\ UNCHANGED <<stdout, branch_locals, branch_state, scan_locals,
                   fmt_locals, fmt_call>>

\* Repository::discover(current_dir)
Discover ==
    /\ pc = "Repository::discover"
    /\ \E r \in {Ok("repo")} \cup {Err(e) : e \in DiscoverErrors} :
        /\ Call("Repository::discover", r)
        /\ IF r.ok THEN Goto("get_repo_info")
           ELSE Return(main_no_repository(r.err))
    /\ UNCHANGED <<stdout, branch_locals, branch_state, scan_locals,
                   fmt_locals, fmt_call>>

\* ----------------------------------------------------------- get_repo_info
PrintOpen ==
    /\ pc = "get_repo_info"
    /\ print_bold_string(<<"[">>, Cyan)
    /\ Goto("repo.is_empty")
    /\ UNCHANGED <<calls, branch_locals, branch_state, scan_locals,
                   fmt_locals, fmt_call>>

\* --------------------------------------------------------- get_branch_info
\* what a library call of get_branch_info leaves alone
branch_frame == <<stdout, scan_locals, fmt_locals, fmt_call>>

\* mutant: the error is dropped and the run goes on to close the bracket
Propagate_swallowed(r) == Goto("print_close")

\* `?`: the error is handed up unchanged, through get_repo_info, to main
Propagate(r) == Return(Err(r.err))

\* the BranchState get_empty_repo_branch_info returns
empty_repo_state(branch_name) ==
    BranchState(branch_name, 0, 0, FALSE, Oid_zero)

\* mutant: the global value is ignored
global_branch_name_ignored(r) == MASTER

\* global.get_str(DEFAULT_BRANCH_KEY), else "master"
global_branch_name(r) == IF r.ok THEN r.val ELSE MASTER

\* mutant: without an upstream every local commit is counted as ahead
no_upstream_state_counted(name, detached, sha) ==
    BranchState(name, 1, 0, detached, sha)

\* the BranchState returned when branch_upstream_name fails
no_upstream_state(name, detached, sha) ==
    BranchState(name, 0, 0, detached, sha)

\* the BranchState returned when an upstream exists
upstream_state(name, ab, detached, sha) ==
    BranchState(name, ab[1], ab[2], detached, sha)

\* get_branch_info returns Ok(bs) to get_repo_info
ReturnBranch(bs) ==
    /\ branch_state' = Some(bs)
    /\ Goto("print_branch")

IsEmpty ==
    /\ pc = "repo.is_empty"
    /\ \E r \in {Ok(TRUE), Ok(FALSE)} \cup LibErr :
        /\ Call("repo.is_empty", r)
        /\ IF ~r.ok THEN Propagate(r)
           ELSE IF r.val THEN Goto("repo.config")
           ELSE Goto("repo.head")
        /\ UNCHANGED <<branch_locals, branch_state>>
    /\ UNCHANGED branch_frame

RepoConfig ==
    /\ pc = "repo.config"
    /\ \E r \in {Ok("config")} \cup LibErr :
        /\ Call("repo.config", r)
        /\ IF r.ok THEN Goto("config.snapshot")
           ELSE Return(add_context_to_error(r.err,
                                            "Unable to get repo config"))
        /\ UNCHANGED <<branch_locals, branch_state>>
    /\ UNCHANGED branch_frame

ConfigSnapshot ==
    /\ pc = "config.snapshot"
    /\ \E r \in {Ok("snapshot")} \cup LibErr :
        /\ Call("config.snapshot", r)
        /\ IF r.ok THEN Goto("config.get_str")
           ELSE Return(add_context_to_error(r.err,
                          "Unable to create config snapshot"))
        /\ UNCHANGED <<branch_locals, branch_state>>
    /\ UNCHANGED branch_frame

ConfigGetStr ==
    /\ pc = "config.get_str"
    /\ \E r \in {Ok(n) : n \in ConfigNames} \cup LibErr :
        /\ Call("config.get_str", r)
        /\ IF r.ok
           THEN ReturnBranch(empty_repo_state(r.val))
           ELSE Goto("config.open_global") /\ UNCHANGED branch_state
        /\ UNCHANGED branch_locals
    /\ UNCHANGED branch_frame

OpenGlobal ==
    /\ pc = "config.open_global"
    /\ \E r \in {Ok("global")} \cup LibErr :
        /\ Call("config.open_global", r)
        /\ IF r.ok THEN Goto("global.get_str")
           ELSE Return(add_context_to_error(r.err,
                                            "Unable to get global config"))
        /\ UNCHANGED <<branch_locals, branch_state>>
    /\ UNCHANGED branch_frame

GlobalGetStr ==
    /\ pc = "global.get_str"
    /\ \E r \in {Ok(n) : n \in ConfigNames} \cup LibErr :
        /\ Call("global.get_str", r)
        /\ ReturnBranch(empty_repo_state(global_branch_name(r)))
        /\ UNCHANGED branch_locals
    /\ UNCHANGED branch_frame

RepoHead ==
    /\ pc = "repo.head"
    /\ \E r \in {Ok("head")} \cup LibErr :
        /\ Call("repo.head", r)
        /\ IF r.ok THEN Goto("head.name")
           ELSE Return(add_context_to_error(r.err, "Unable to get HEAD"))
        /\ UNCHANGED <<branch_locals, branch_state>>
    /\ UNCHANGED branch_frame

HeadName ==
    /\ pc = "head.name"
    /\ \E r \in {Some("refname"), None} :
        /\ Call("head.name", r)
        /\ IF r.some THEN Goto("head.shorthand")
           ELSE Return(Err(from_str(
                    <<"Unable to get local branch full name">>)))
        /\ UNCHANGED <<branch_locals, branch_state>>
    /\ UNCHANGED branch_frame

HeadShorthand ==
    /\ pc = "head.shorthand"
    /\ \E r \in {Some(n) : n \in Shorthands} \cup {None} :
        /\ Call("head.shorthand", r)
        /\ IF r.some
           THEN head_shortname' = r /\ Goto("repo.branch_upstream_name")
           ELSE /\ Return(Err(from_str(
                       <<"Unable to get local branch short name">>)))
                /\ UNCHANGED head_shortname
        /\ UNCHANGED <<ahead_behind, is_detached, branch_state>>
    /\ UNCHANGED branch_frame

BranchUpstreamName ==
    /\ pc = "repo.branch_upstream_name"
    /\ \E r \in {Ok("remote_name_buf")} \cup LibErr :
        /\ Call("repo.branch_upstream_name", r)
        /\ IF r.ok THEN Goto("remote_name_buf.as_str")
           ELSE Goto("no_upstream.head_detached")
        /\ UNCHANGED <<branch_locals, branch_state>>
    /\ UNCHANGED branch_frame

NoUpstreamHeadDetached ==
    /\ pc = "no_upstream.head_detached"
    /\ \E r \in {Ok(TRUE), Ok(FALSE)} \cup LibErr :
        /\ Call("repo.head_detached", r)
        /\ IF r.ok
           THEN is_detached' = r.val /\ Goto("no_upstream.peel_to_commit")
           ELSE Propagate(r) /\ UNCHANGED is_detached
        /\ UNCHANGED <<head_shortname, ahead_behind, branch_state>>
    /\ UNCHANGED branch_frame

NoUpstreamPeelToCommit ==
    /\ pc = "no_upstream.peel_to_commit"
    /\ \E r \in {Ok(HeadOid)} \cup LibErr :
        /\ Call("head.peel_to_commit", r)
        /\ IF r.ok
           THEN ReturnBranch(no_upstream_state(head_shortname.val,
                                               is_detached, r.val))
           ELSE Propagate(r) /\ UNCHANGED branch_state
        /\ UNCHANGED branch_locals
    /\ UNCHANGED branch_frame

RemoteNameAsStr ==
    /\ pc = "remote_name_buf.as_str"
    /\ \E r \in {Some("refs/remotes/origin/x"), None} :
        /\ Call("remote_name_buf.as_str", r)
        /\ IF r.some THEN Goto("repo.find_reference")
           ELSE Return(Err(from_str(
                    <<"Unable to get remote branch name">>)))
        /\ UNCHANGED <<branch_locals, branch_state>>
    /\ UNCHANGED branch_frame

FindReference ==
    /\ pc = "repo.find_reference"
    /\ \E r \in {Ok("remote_reference")} \cup LibErr :
        /\ Call("repo.find_reference", r)
        /\ IF r.ok THEN Goto("remote_reference.target")
           ELSE Propagate(r)
        /\ UNCHANGED <<branch_locals, branch_state>>
    /\ UNCHANGED branch_frame

RemoteTarget ==
    /\ pc = "remote_reference.target"
    /\ \E r \in {Some("upstream_oid"), None} :
        /\ Call("remote_reference.target", r)
        /\ IF r.some THEN Goto("head.target")
           ELSE Return(Err(from_str(
                    <<"Unable to get remote branch id">>)))
        /\ UNCHANGED <<branch_locals, branch_state>>
    /\ UNCHANGED branch_frame

HeadTarget ==
    /\ pc = "head.target"
    /\ \E r \in {Some("local_oid"), None} :
        /\ Call("head.target", r)
        /\ IF r.some THEN Goto("repo.graph_ahead_behind")
           ELSE Return(Err(from_str(
                    <<"Unable to get local branch id">>)))
        /\ UNCHANGED <<branch_locals, branch_state>>
    /\ UNCHANGED branch_frame

GraphAheadBehind ==
    /\ pc = "repo.graph_ahead_behind"
    /\ \E r \in {Ok(ab) : ab \in AheadBehinds} \cup LibErr :
        /\ Call("repo.graph_ahead_behind", r)
        /\ IF r.ok
           THEN ahead_behind' = r.val /\ Goto("repo.head_detached")
           ELSE Propagate(r) /\ UNCHANGED ahead_behind
        /\ UNCHANGED <<head_shortname, is_detached, branch_state>>
    /\ UNCHANGED branch_frame

HeadDetached ==
    /\ pc = "repo.head_detached"
    /\ \E r \in {Ok(TRUE), Ok(FALSE)} \cup LibErr :
        /\ Call("repo.head_detached", r)
        /\ IF r.ok
           THEN is_detached' = r.val /\ Goto("head.peel_to_commit")
           ELSE Propagate(r) /\ UNCHANGED is_detached
        /\ UNCHANGED <<head_shortname, ahead_behind, branch_state>>
    /\ UNCHANGED branch_frame

PeelToCommit ==
    /\ pc = "head.peel_to_commit"
    /\ \E r \in {Ok(HeadOid)} \cup LibErr :
        /\ Call("head.peel_to_commit", r)
        /\ IF r.ok
           THEN ReturnBranch(upstream_state(head_shortname.val,
                                 ahead_behind, is_detached, r.val))
           ELSE Propagate(r) /\ UNCHANGED branch_state
        /\ UNCHANGED branch_locals
    /\ UNCHANGED branch_frame


\* ----------------------------------------------- get_repo_info, continued
PrintBranch ==
    /\ pc = "print_branch"
    /\ print_bold_string(BranchState_as_string(branch_state.val), Cyan)
    /\ Goto("repo.statuses")
    /\ UNCHANGED <<calls, branch_locals, branch_state, scan_locals,
                   fmt_locals, fmt_call>>

\* ---------------------------------------------------------- get_file_state
B(flag, status) == IF flag \in status THEN 1 ELSE 0

\* mutant: a staged rename is counted as an addition only
count_status_rename_add_only(c, status) ==
    FileState(c.wt_add + B(WT_NEW, status) + B(WT_RENAMED, status),
              c.wt_edit + B(WT_MODIFIED, status),
              c.wt_remove + B(WT_DELETED, status) + B(WT_RENAMED, status),
              c.index_add + B(INDEX_NEW, status) + B(INDEX_RENAMED, status),
              c.index_edit + B(INDEX_MODIFIED, status),
              c.index_remove + B(INDEX_DELETED, status))

\* the body of the loop over the status entries
count_status(c, status) ==
    LET c1 == IF WT_NEW \in status
              THEN [c EXCEPT !.wt_add = @ + 1] ELSE c
        c2 == IF WT_MODIFIED \in status
              THEN [c1 EXCEPT !.wt_edit = @ + 1] ELSE c1
        c3 == IF WT_DELETED \in status
              THEN [c2 EXCEPT !.wt_remove = @ + 1] ELSE c2
        c4 == IF WT_RENAMED \in status
              THEN [c3 EXCEPT !.wt_add = @ + 1, !.wt_remove = @ + 1] ELSE c3
        c5 == IF INDEX_NEW \in status
              THEN [c4 EXCEPT !.index_add = @ + 1] ELSE c4
        c6 == IF INDEX_MODIFIED \in status
              THEN [c5 EXCEPT !.index_edit = @ + 1] ELSE c5
        c7 == IF INDEX_DELETED \in status
              THEN [c6 EXCEPT !.index_remove = @ + 1] ELSE c6
        c8 == IF INDEX_RENAMED \in status
              THEN [c7 EXCEPT !.index_add = @ + 1, !.index_remove = @ + 1]
              ELSE c7
    IN  c8

\* repo.statuses(None)? and the six counters set to 0
Statuses ==
    /\ pc = "repo.statuses"
    /\ \E r \in {Ok("statuses")} \cup LibErr :
        /\ Call("repo.statuses", r)
        /\ IF r.ok THEN Goto("statuses.iter") ELSE Propagate(r)
    /\ counters' = FileState(0, 0, 0, 0, 0, 0)
    /\ scanned' = 0
    /\ UNCHANGED <<stdout, branch_locals, branch_state, last,
                   fmt_locals, fmt_call>>

\* the iterator yields one more entry, of a status in `domain`
ScanEntry(domain, max) ==
    /\ scanned < max
    /\ \E status \in domain :
        /\ counters' = count_status(counters, status)
        /\ last' = status
    /\ scanned' = scanned + 1
    /\ UNCHANGED <<pc, ret, stderr, stdout, calls, branch_locals,
                   branch_state, fmt_locals, fmt_call>>

ScanFile ==
    /\ pc = "statuses.iter"
    /\ ScanEntry(SampleStatuses, MaxFiles)

ScanAnyFile ==
    /\ pc = "statuses.iter"
    /\ ScanEntry(AllStatuses, MaxScan)

\* the iterator is exhausted: get_file_state returns the FileState, and
\* get_repo_info renders its two sides
ScanDone ==
    /\ pc = "statuses.iter"
    /\ file_state' = Some(counters)
    /\ index_text' = index_as_string(counters)
    /\ wt_text' = wt_as_string(counters)
    /\ Goto("print_index")
    /\ UNCHANGED <<stdout, calls, branch_locals, branch_state, scan_locals,
                   fmt_call>>

\* ----------------------------------------------- get_repo_info, the deltas
\* mutant: the separator is written whenever the worktree side is not empty
separator_due_wt_only(index, wt) == wt # <<>>

\* the two nested tests that guard the " |"
separator_due(index, wt) == index # <<>> /\ wt # <<>>

PrintIndex ==
    /\ pc = "print_index"
    /\ IF index_text # <<>>
       THEN print_bold_string(index_text, Green)
       ELSE UNCHANGED stdout
    /\ Goto("print_separator")
    /\ UNCHANGED <<calls, branch_locals, branch_state, scan_locals,
                   fmt_locals, fmt_call>>

PrintSeparator ==
    /\ pc = "print_separator"
    /\ IF separator_due(index_text, wt_text)
       THEN print_bold_string(<<" ", "|">>, Cyan)
       ELSE UNCHANGED stdout
    /\ Goto("print_wt")
    /\ UNCHANGED <<calls, branch_locals, branch_state, scan_locals,
                   fmt_locals, fmt_call>>

PrintWt ==
    /\ pc = "print_wt"
    /\ IF wt_text # <<>>
       THEN print_bold_string(wt_text, Red)
       ELSE UNCHANGED stdout
    /\ Goto("print_close")
    /\ UNCHANGED <<calls, branch_locals, branch_state, scan_locals,
                   fmt_locals, fmt_call>>

\* the closing bracket, get_repo_info's Ok(()) and main's
PrintClose ==
    /\ pc = "print_close"
    /\ print_bold_string(<<"]">>, Cyan)
    /\ Return(Ok(Unit))
    /\ UNCHANGED <<calls, branch_locals, branch_state, scan_locals,
                   fmt_locals, fmt_call>>

\* ------------------------------------------------------- the whole program
Next ==
    \/ CurrentDir \/ Discover \/ PrintOpen
    \/ IsEmpty \/ RepoConfig \/ ConfigSnapshot \/ ConfigGetStr
    \/ OpenGlobal \/ GlobalGetStr
    \/ RepoHead \/ HeadName \/ HeadShorthand \/ BranchUpstreamName
    \/ NoUpstreamHeadDetached \/ NoUpstreamPeelToCommit
    \/ RemoteNameAsStr \/ FindReference \/ RemoteTarget \/ HeadTarget
    \/ GraphAheadBehind \/ HeadDetached \/ PeelToCommit
    \/ PrintBranch \/ Statuses \/ ScanFile \/ ScanDone
    \/ PrintIndex \/ PrintSeparator \/ PrintWt \/ PrintClose

Spec == Init /\ [][Next]_vars


\* ------------------------------------ the status loop, every flag combination
\* A run on branch main without an upstream, at the point where
\* repo.statuses(None) has just returned: the loop then meets entries of
\* every flag combination.
ScanStartCalls ==
    <<[op |-> "env::current_dir", res |-> Ok("dir")],
      [op |-> "Repository::discover", res |-> Ok("repo")],
      [op |-> "repo.is_empty", res |-> Ok(FALSE)],
      [op |-> "repo.head", res |-> Ok("head")],
      [op |-> "head.name", res |-> Some("refname")],
      [op |-> "head.shorthand", res |-> Some(MAIN)],
      [op |-> "repo.branch_upstream_name",
       res |-> Err([message |-> <<"object not found">>])],
      [op |-> "repo.head_detached", res |-> Ok(FALSE)],
      [op |-> "head.peel_to_commit", res |-> Ok(HeadOid)],
      [op |-> "repo.statuses", res |-> Ok("statuses")]>>

ScanStart ==
    /\ pc = "statuses.iter"
    /\ stdout = <<[text |-> <<"[">>, colour |-> Cyan, bold |-> TRUE],
                  [text |-> MAIN, colour |-> Cyan, bold |-> TRUE]>>
    /\ stderr = <<>>
    /\ ret = None
    /\ calls = ScanStartCalls
    /\ head_shortname = Some(MAIN)
    /\ ahead_behind = <<0, 0>>
    /\ is_detached = FALSE
    /\ branch_state = Some(BranchState(MAIN, 0, 0, FALSE, HeadOid))
    /\ counters = FileState(0, 0, 0, 0, 0, 0)
    /\ scanned = 0
    /\ last = {}
    /\ file_state = None
    /\ index_text = <<>>
    /\ wt_text = <<>>
    /\ args = NoArgs
    /\ text = None

NextFiles ==
    \/ ScanAnyFile \/ ScanDone
    \/ PrintIndex \/ PrintSeparator \/ PrintWt \/ PrintClose

SpecFiles == ScanStart /\ [][NextFiles]_vars

\* ------------------------------------------- the two formatting functions
Counts == 0..MaxCount \cup {99, 100, 101, 1000, 12345}

FileArgs ==
    {[kind |-> "FileState::as_string", add |-> a, edit |-> e, remove |-> r,
      self |-> NoArgs.self] : a \in Counts, e \in Counts, r \in Counts}

BranchArgs ==
    {[kind |-> "BranchState::as_string", add |-> 0, edit |-> 0, remove |-> 0,
      self |-> BranchState(n, a, b, d, HeadOid)] :
        n \in Shorthands \cup {MASTER}, a \in Counts, b \in Counts,
        d \in BOOLEAN}

InitFmt ==
    /\ pc = "main"
    /\ stdout = <<>>
    /\ stderr = <<>>
    /\ ret = None
    /\ calls = <<>>
    /\ head_shortname = None
    /\ ahead_behind = <<0, 0>>
    /\ is_detached = FALSE
    /\ branch_state = None
    /\ counters = FileState(0, 0, 0, 0, 0, 0)
    /\ scanned = 0
    /\ last = {}
    /\ file_state = None
    /\ index_text = <<>>
    /\ wt_text = <<>>
    /\ args \in FileArgs \cup BranchArgs
    /\ text = None

CallFileStateAsString ==
    /\ args.kind = "FileState::as_string"
    /\ text = None
    /\ text' = Some(FileState_as_string(args.add, args.edit, args.remove))
    /\ UNCHANGED <<pc, stdout, stderr, ret, calls, branch_locals,
                   branch_state, scan_locals, fmt_locals, args>>

CallBranchStateAsString ==
    /\ args.kind = "BranchState::as_string"
    /\ text = None
    /\ text' = Some(BranchState_as_string(args.self))
    /\ UNCHANGED <<pc, stdout, stderr, ret, calls, branch_locals,
                   branch_state, scan_locals, fmt_locals, args>>

NextFmt == CallFileStateAsString \/ CallBranchStateAsString

SpecFmt == InitFmt /\ [][NextFmt]_vars


\* ================================================================== claims
Called(op) == \E i \in 1..Len(calls) : calls[i].op = op
ResultOf(op) == calls[CHOOSE i \in 1..Len(calls) : calls[i].op = op].res
Failed(op) == Called(op) /\ ~ResultOf(op).ok

Seg(t, colour) == [text |-> t, colour |-> colour, bold |-> TRUE]
Written(t) == \E i \in 1..Len(stdout) : stdout[i].text = t
IsPrefix(s, t) == Len(s) <= Len(t) /\ s = SubSeq(t, 1, Len(s))

RECURSIVE Flat(_)
Flat(segs) == IF segs = <<>> THEN <<>> ELSE Head(segs).text \o Flat(Tail(segs))

Exited == pc = "exit"
ExitedWithError == Exited /\ ~ret.val.ok

NoRepository ==
    /\ Failed("Repository::discover")
    /\ ResultOf("Repository::discover").err.code = "NotFound"
InRepository ==
    Called("Repository::discover") /\ ResultOf("Repository::discover").ok

\* C1: when discovery reports that there is no repository, the run has
\* ended, main returned Ok(()) (exit code 0) and standard output is empty.
C1_NoRepositoryIsSilent ==
    NoRepository =>
        /\ Exited
        /\ ret = Some(Ok(Unit))
        /\ exit_code = 0
        /\ stdout = <<>>

C1_Witness == Exited /\ NoRepository

\* C8: a locator failure other than "no repository" (the current directory
\* cannot be read, or discovery fails otherwise than by not finding) ends
\* the run with an error message and a non-zero exit code.
C8_LocatorFailureAborts ==
    (/\ Exited
     /\ \/ Failed("env::current_dir")
        \/ /\ Failed("Repository::discover")
           /\ ResultOf("Repository::discover").err.code # "NotFound")
    => (exit_code # 0 /\ stderr # <<>>)

\* the strings the code passes to add_context_to_error
Contexts ==
    {"Unable to get current dir", "Unable to get HEAD",
     "Unable to get repo config", "Unable to create config snapshot",
     "Unable to get global config"}

HasContext(message) ==
    /\ Len(message) = 3
    /\ message[1] \in Contexts
    /\ message[2] = ". Error: "
    /\ <<message[3]>> \in LibMessages

\* C9: every error main returns has a message of the form
\* "<context>. Error: <underlying message>".
C9_EveryErrorHasContext ==
    ExitedWithError => HasContext(ret.val.err.message)

\* ---------------------------------------------------------------- layout
Separator == <<" ", "|">>
DeltasDecided == file_state.some /\ pc \in {"print_wt", "print_close", "exit"}

\* C2: once get_repo_info is past the separator test, " |" has been written
\* iff both delta strings of the FileState are non-empty; it then follows
\* the index deltas directly and, once the worktree deltas are written,
\* precedes them directly.
C2_SeparatorIffBoth ==
    DeltasDecided =>
        LET index == index_as_string(file_state.val)
            wt == wt_as_string(file_state.val)
        IN  /\ Written(Separator) <=> (index # <<>> /\ wt # <<>>)
            /\ \A i \in 1..Len(stdout) :
                 stdout[i].text = Separator =>
                    /\ i = 4
                    /\ stdout[i - 1] = Seg(index, Green)
                    /\ pc # "print_wt" => stdout[i + 1] = Seg(wt, Red)
            /\ (index # <<>> /\ wt = <<>> /\ Exited) =>
                  Flat(stdout) = <<"[">> \o BranchState_as_string(branch_state.val)
                                   \o index \o <<"]">>

C2_Witness ==
    /\ Exited
    /\ Flat(stdout) = <<"[", "m", "a", "i", "n", " ", "+", "1", " ", "|",
                        " ", "~", "2", "]">>

\* the layout of a complete run, piece by piece
Layout(branch, index, wt) ==
    <<Seg(<<"[">>, Cyan), Seg(branch, Cyan)>>
    \o (IF index # <<>> THEN <<Seg(index, Green)>> ELSE <<>>)
    \o (IF index # <<>> /\ wt # <<>> THEN <<Seg(Separator, Cyan)>> ELSE <<>>)
    \o (IF wt # <<>> THEN <<Seg(wt, Red)>> ELSE <<>>)
    \o <<Seg(<<"]">>, Cyan)>>

\* C10: in a run inside a repository standard output is at every moment a
\* prefix of "[", branch, index deltas, " |", worktree deltas, "]"; nothing
\* but "[" is written before the branch is resolved, no delta before the
\* file state is aggregated, "]" only when both succeeded, and a run that
\* has ended wrote "]" iff both succeeded, so never when it failed.
C10_OutputIsLayoutPrefix ==
    InRepository =>
        /\ IF ~branch_state.some
           THEN IsPrefix(stdout, <<Seg(<<"[">>, Cyan)>>)
           ELSE LET branch == BranchState_as_string(branch_state.val)
                IN  IF ~file_state.some
                    THEN /\ IsPrefix(stdout, <<Seg(<<"[">>, Cyan),
                                               Seg(branch, Cyan)>>)
                         /\ Len(stdout) >= 1
                    ELSE /\ IsPrefix(stdout,
                               Layout(branch, index_as_string(file_state.val),
                                      wt_as_string(file_state.val)))
                         /\ Len(stdout) >= 2
        /\ Written(<<"]">>) => (branch_state.some /\ file_state.some)
        /\ Exited => (Written(<<"]">>) <=> (branch_state.some /\ file_state.some))
        /\ ExitedWithError => ~Written(<<"]">>)

C10_Witness ==
    /\ ExitedWithError
    /\ Failed("repo.statuses")
    /\ Len(stdout) = 2


\* ------------------------------------------------------------- formatting
\* the decimal numeral of n, by place value
NumDigits(n) == CHOOSE k \in 1..8 : n < 10^k /\ (k = 1 \/ n >= 10^(k - 1))
Decimal(n) ==
    [i \in 1..NumDigits(n) |-> Digits[((n \div 10^(NumDigits(n) - i)) % 10) + 1]]

\* " <symbol><n>" when n > 0, nothing otherwise
Term(symbol, n) == IF n = 0 THEN <<>> ELSE <<" ", symbol>> \o Decimal(n)

\* C3: FileState::as_string(add, edit, remove) is " +<add>", " ~<edit>",
\* " -<remove>" concatenated in that order, each present iff its count is
\* positive; it is empty when the three counts are zero.
C3_FileStateAsString ==
    (args.kind = "FileState::as_string" /\ text.some) =>
        /\ text.val = Term("+", args.add) \o Term("~", args.edit)
                      \o Term("-", args.remove)
        /\ (args.add = 0 /\ args.edit = 0 /\ args.remove = 0) => text.val = <<>>

C3_Witness ==
    /\ args.kind = "FileState::as_string"
    /\ args.add = 10 /\ args.edit = 2 /\ args.remove = 101
    /\ text.some
    /\ text.val = <<" ", "+", "1", "0", " ", "~", "2", " ", "-", "1", "0", "1">>

\* C4: BranchState::as_string is the name, then "(<sha>)" iff detached,
\* then " ↓<behind>" iff behind > 0, then " ↑<ahead>" iff ahead > 0.
C4_BranchStateAsString ==
    (args.kind = "BranchState::as_string" /\ text.some) =>
        LET self == args.self
        IN  text.val = self.name
                       \o (IF self.is_detached
                           THEN <<"(">> \o self.sha \o <<")">> ELSE <<>>)
                       \o Term("↓", self.behind)
                       \o Term("↑", self.ahead)

C4_Witness ==
    /\ args.kind = "BranchState::as_string"
    /\ text.some
    /\ args.self.name = MAIN /\ ~args.self.is_detached
    /\ args.self.behind = 3 /\ args.self.ahead = 2
    /\ text.val = <<"m", "a", "i", "n", " ", "↓", "3", " ", "↑", "2">>

\* -------------------------------------------------------- branch resolution
EmptyRepository ==
    /\ Called("repo.is_empty")
    /\ ResultOf("repo.is_empty").ok
    /\ ResultOf("repo.is_empty").val
BranchInfoFinished == branch_state.some \/ Exited

\* the name the fallback chain asks for: the first lookup's value, else the
\* global configuration's, else "master"
DefaultBranchName ==
    IF ResultOf("config.get_str").ok THEN ResultOf("config.get_str").val
    ELSE IF Called("global.get_str") /\ ResultOf("global.get_str").ok
         THEN ResultOf("global.get_str").val
    ELSE MASTER

IsEmptyRepoState(bs) ==
    /\ bs.name = DefaultBranchName
    /\ bs.ahead = 0
    /\ bs.behind = 0
    /\ ~bs.is_detached

NoUpstream == Failed("repo.branch_upstream_name")

\* C6: a BranchState returned without an upstream, or for a repository
\* without commits, has ahead = 0 and behind = 0; the failed upstream lookup
\* does not end the run; graph_ahead_behind is called only after the
\* upstream lookup succeeded.
C6_NoUpstreamNoCounts ==
    /\ (branch_state.some /\ (NoUpstream \/ EmptyRepository)) =>
          (branch_state.val.ahead = 0 /\ branch_state.val.behind = 0)
    /\ (calls # <<>> /\ calls[Len(calls)].op = "repo.branch_upstream_name") =>
          ~Exited
    /\ Called("repo.graph_ahead_behind") =>
          (Called("repo.branch_upstream_name")
           /\ ResultOf("repo.branch_upstream_name").ok)

C6_Witness ==
    /\ NoUpstream
    /\ branch_state.some
    /\ ~Called("repo.graph_ahead_behind")
    /\ Exited /\ ret.val.ok

\* ------------------------------------------------------------ aggregation
\* C7: each entry the loop counts adds to index_add 1 for the index-new
\* flag plus 1 for the index-renamed flag, and to index_remove 1 for the
\* index-deleted flag plus 1 for the index-renamed flag; likewise wt_add and
\* wt_remove with the worktree flags; a rename leaves the edit counters to
\* the modified flags alone.
C7_RenameCountsBoth ==
    [][scanned' = scanned + 1 =>
        /\ counters'.index_add = counters.index_add
              + B(INDEX_NEW, last') + B(INDEX_RENAMED, last')
        /\ counters'.index_remove = counters.index_remove
              + B(INDEX_DELETED, last') + B(INDEX_RENAMED, last')
        /\ counters'.index_edit = counters.index_edit
              + B(INDEX_MODIFIED, last')
        /\ counters'.wt_add = counters.wt_add
              + B(WT_NEW, last') + B(WT_RENAMED, last')
        /\ counters'.wt_remove = counters.wt_remove
              + B(WT_DELETED, last') + B(WT_RENAMED, last')
        /\ counters'.wt_edit = counters.wt_edit
              + B(WT_MODIFIED, last')]_vars

C7_Witness ==
    /\ scanned = 1
    /\ last = {INDEX_RENAMED, INDEX_NEW, WT_RENAMED}
    /\ counters = FileState(1, 0, 1, 2, 0, 1)

=============================================================================
